---- MODULE Spec2Model ----
(***************************************************************************)
(* Speaker comparator of Backend/SpeechBrain/SpeechBrainMain.py.           *)
(*                                                                         *)
(* Numbers.  A float32 value is an even integer (one float32 step is 2);   *)
(* a Python float (a double) is any integer, so an odd integer is a double *)
(* that float32 cannot hold and torch.tensor(..., dtype=float32) rounds it *)
(* (ties to even).  A cosine score is kept exactly, as its sign and its    *)
(* square in lowest terms: [sgn, num, den] is sgn * sqrt(num / den).       *)
(*                                                                         *)
(* External collaborators.  soundfile decodes, librosa resamples and the   *)
(* pretrained network embeds; each is a deterministic stand-in here        *)
(* (Resample, encode_batch), since the source only calls them.             *)
(***************************************************************************)
EXTENDS Integers, Sequences, FiniteSets, TLC

\* Longest main_embedding_list a caller supplies.
MaxLen == 4
\* Dimensionality of the network's embedding.
EmbDim == 3

\* SpeechBrainMain.py:8
SR == 16000

VARIABLES
    model,                \* the module global `model` (line 10)
    THRESHOLD,            \* the module global THRESHOLD (line 9), <<p, q>> = p/q
    init_called,          \* whether init() has ever been called
    main_embedding_list,  \* the list object the caller holds and may pass again
    main_source,          \* whose embedding that list is: an audio's name, or "caller"
    last                  \* the last call: its arguments, locals and outcome

vars == <<model, THRESHOLD, init_called, main_embedding_list, main_source, last>>

----------------------------------------------------------------------------
\* Python values

\* A Python list argument that may be None.
PyNone == [is_none |-> TRUE, items |-> <<>>]

PyList(items) == [is_none |-> FALSE, items |-> items]

Min(a, b) == IF a <= b THEN a ELSE b

Max(a, b) == IF a >= b THEN a ELSE b

RECURSIVE GCD(_, _)
GCD(a, b) == IF b = 0 THEN a ELSE GCD(b, a % b)

\* x[:m] of Python: never an index fault, at most the whole sequence.
Slice(x, m) == SubSeq(x, 1, Min(m, Len(x)))

\* float32(x): the nearest even integer, a tie going to the even mantissa.
ToFloat32(x) ==
    IF x % 2 = 0 THEN x
    ELSE IF (x - 1) % 4 = 0 THEN x - 1 ELSE x + 1

\* torch.tensor(seq, dtype=torch.float32)
ToTensor(seq) == [i \in 1..Len(seq) |-> ToFloat32(seq[i])]

\* Tensor.tolist(): every float32 is a double, the widening is exact.
tolist(v) == [i \in 1..Len(v) |-> v[i]]

----------------------------------------------------------------------------
\* Scores

Zero == [sgn |-> 0, num |-> 0, den |-> 1]

One == [sgn |-> 1, num |-> 1, den |-> 1]

Half == [sgn |-> 1, num |-> 1, den |-> 4]

\* sgn * sqrt(n / d), in lowest terms
MkScore(sgn, n, d) ==
    IF n = 0 THEN Zero
    ELSE LET g == GCD(n, d) IN [sgn |-> sgn, num |-> n \div g, den |-> d \div g]

\* s > p/q for a threshold p/q >= 0
ScoreGT(s, t) == s.sgn = 1 /\ s.num * t[2] * t[2] > t[1] * t[1] * s.den

ScoreGE(s, t) ==
    \/ t[1] = 0 /\ s.sgn >= 0
    \/ s.sgn = 1 /\ s.num * t[2] * t[2] >= t[1] * t[1] * s.den

RECURSIVE Dot(_, _)
Dot(a, b) == IF a = <<>> THEN 0 ELSE Head(a) * Head(b) + Dot(Tail(a), Tail(b))

\* broadcasting of a one-element tensor against a longer one
Expand(x, n) == IF Len(x) = n THEN x ELSE [i \in 1..n |-> x[1]]

\* a forgotten normalisation: the bare dot product
cosine_similarity_unnormalised(x1, x2) ==
    LET d == Dot(x1, x2)
    IN  [outcome |-> "return",
         value |-> MkScore(IF d > 0 THEN 1 ELSE IF d < 0 THEN -1 ELSE 0, d * d, 1)]

\* torch.nn.functional.cosine_similarity(x1, x2, dim=0):
\* x1.x2 / max(|x1| * |x2|, eps), so an all-zero operand scores 0.0.
cosine_similarity(x1, x2) ==
    IF Len(x1) # Len(x2) /\ Len(x1) # 1 /\ Len(x2) # 1
    THEN [outcome |-> "RuntimeError", value |-> Zero]
    ELSE LET n == Max(Len(x1), Len(x2))
             a == Expand(x1, n)
             b == Expand(x2, n)
             d == Dot(a, b)
             w == Dot(a, a) * Dot(b, b)
         IN  [outcome |-> "return",
              value |-> IF w = 0 THEN Zero
                        ELSE MkScore(IF d > 0 THEN 1 ELSE IF d < 0 THEN -1 ELSE 0,
                                     d * d, w)]

----------------------------------------------------------------------------
\* Audio byte buffers: what soundfile finds in them.  A valid buffer holds PCM
\* frames (float32-exact samples) at a file sample rate; mono files decode to a
\* 1-D array, multi-channel files to one row of channel samples per frame.

NotAudio == [name |-> "NotAudio", valid |-> FALSE, sr |-> 0, channels |-> 0,
             frames |-> <<>>]

MonoA == [name |-> "MonoA", valid |-> TRUE, sr |-> 16000, channels |-> 1,
          frames |-> <<2, 2, 0>>]

StereoB == [name |-> "StereoB", valid |-> TRUE, sr |-> 16000, channels |-> 2,
            frames |-> <<<<0, 0>>, <<-4, 0>>, <<-2, -2>>>>]

Silence8k == [name |-> "Silence8k", valid |-> TRUE, sr |-> 8000, channels |-> 1,
              frames |-> <<0, 0>>]

AudioInputs == {NotAudio, MonoA, StereoB, Silence8k}

RECURSIVE Sum(_)
Sum(s) == IF s = <<>> THEN 0 ELSE Head(s) + Sum(Tail(s))

\* sig.mean(axis=1)
MeanChannels(frames) ==
    [i \in 1..Len(frames) |-> Sum(frames[i]) \div Len(frames[i])]

\* librosa.resample(sig, orig_sr, target_sr): ceil(n * target / orig) samples;
\* the kernel is librosa's, each output sample here is the nearest input one.
Resample(sig, orig_sr, target_sr) ==
    IF orig_sr = target_sr THEN sig
    ELSE LET n == (Len(sig) * target_sr + orig_sr - 1) \div orig_sr
         IN  [i \in 1..n |-> sig[Min(Len(sig), ((i - 1) * orig_sr) \div target_sr + 1)]]

load_audio_bytes(data, sr) ==
    IF ~data.valid
    THEN [outcome |-> "DecodeError", value |-> <<>>]
    ELSE LET sig == IF data.channels > 1 THEN MeanChannels(data.frames)
                    ELSE data.frames
         IN  [outcome |-> "return", value |-> Resample(sig, data.sr, sr)]

\* the waveforms a caller of get_embedding can hold
Waveforms == {load_audio_bytes(a, SR).value : a \in {x \in AudioInputs : x.valid}}

\* model.encode_batch(tensor): a [1, 1, EmbDim] tensor for a one-item batch.
encode_batch(batch) ==
    LET w == batch[1]
    IN  << << [i \in 1..EmbDim |-> w[((i - 1) % Len(w)) + 1]] >> >>

\* emb.squeeze(), then flatten() when more than one dimension is left
Squeeze(emb) == emb[1][1]

\* an embedder that tolerates a missing model and answers zeros
get_embedding_no_model_check(sig, mdl) ==
    [outcome |-> "return",
     value |-> IF mdl = "None" THEN [i \in 1..EmbDim |-> 0]
               ELSE Squeeze(encode_batch(<<ToTensor(sig)>>)),
     model |-> mdl]

\* an embedder that releases the model after use
get_embedding_releases_model(sig, mdl) ==
    IF mdl = "None"
    THEN [outcome |-> "UninitializedModelError", value |-> <<>>, model |-> mdl]
    ELSE [outcome |-> "return",
          value |-> Squeeze(encode_batch(<<ToTensor(sig)>>)),
          model |-> "None"]

\* `model.encode_batch` on model = None raises (AttributeError): the
\* uninitialized-model error.  The result carries the global `model` after the call.
get_embedding(sig, mdl) ==
    IF mdl = "None"
    THEN [outcome |-> "UninitializedModelError", value |-> <<>>, model |-> mdl]
    ELSE [outcome |-> "return",
          value |-> Squeeze(encode_batch(<<ToTensor(sig)>>)),
          model |-> mdl]

get_audio_embedding(audio_bytes, mdl) ==
    LET sig == load_audio_bytes(audio_bytes, SR)
        embedding == get_embedding(sig.value, mdl)
    IN  IF sig.outcome # "return"
        THEN [outcome |-> sig.outcome, value |-> <<>>, model |-> mdl,
              calls |-> <<"load_audio_bytes">>]
        ELSE IF embedding.outcome # "return"
        THEN [outcome |-> embedding.outcome, value |-> <<>>,
              model |-> embedding.model,
              calls |-> <<"load_audio_bytes", "get_embedding">>]
        ELSE [outcome |-> "return", value |-> tolist(embedding.value),
              model |-> embedding.model,
              calls |-> <<"load_audio_bytes", "get_embedding">>]

----------------------------------------------------------------------------
\* compare_bytes

\* a guard that tests for None alone
MissingReference_none_only(main) == main.is_none

\* main_embedding_list is None or len(main_embedding_list) == 0
MissingReference(main) == main.is_none \/ Len(main.items) = 0

\* an error dict that lost its message
ErrorResult_no_message == [score |-> Zero, is_match |-> FALSE, status |-> "error"]

ErrorResult ==
    [score |-> Zero, is_match |-> FALSE, status |-> "error",
     message |-> "Main audio embedding not provided or empty."]

\* score >= THRESHOLD
IsMatch_ge(score, thr) == ScoreGE(score, thr)

\* score > THRESHOLD
IsMatch(score, thr) == ScoreGT(score, thr)

SuccessResult(score, thr) ==
    [score |-> score, is_match |-> IsMatch(score, thr), status |-> "success"]

\* aligning to the longer of the two
AlignLen_max(n1, n2) == Max(n1, n2)

\* m = min(main_audio_embedding.numel(), emb.numel())
AlignLen(n1, n2) == Min(n1, n2)

\* nothing is returned when the call raises
NoResult == [raised |-> TRUE]

\* what a call of compare_bytes leaves: its outcome, the dict returned, the
\* lower-layer calls it made, its locals m, emb, emb1, emb2, the caller's list
\* object and the global `model` after the call
Outcome(outcome, result, calls, m, emb, emb1, emb2, main, mdl) ==
    [outcome |-> outcome, result |-> result, calls |-> calls, m |-> m,
     emb |-> emb, emb1 |-> emb1, emb2 |-> emb2, main_after |-> main,
     model |-> mdl]

\* lines 60-66: the guard's early return
GuardReturn(main, mdl) ==
    Outcome("return", ErrorResult, <<>>, 0, <<>>, <<>>, <<>>, main, mdl)

\* lines 68-84: embed the audio, align, score
ScoreEmbedding(audio_bytes, main, mdl, thr) ==
    LET main_audio_embedding == ToTensor(main.items)
        sig == load_audio_bytes(audio_bytes, SR)
        emb == get_embedding(sig.value, mdl)
        m == AlignLen(Len(main_audio_embedding), Len(emb.value))
        emb1 == Slice(main_audio_embedding, m)
        emb2 == Slice(emb.value, m)
        score == cosine_similarity(emb1, emb2)
    IN  IF sig.outcome # "return"
        THEN Outcome(sig.outcome, NoResult, <<"load_audio_bytes">>,
                     0, <<>>, <<>>, <<>>, main, mdl)
        ELSE IF emb.outcome # "return"
        THEN Outcome(emb.outcome, NoResult, <<"load_audio_bytes", "get_embedding">>,
                     0, <<>>, <<>>, <<>>, main, emb.model)
        ELSE IF score.outcome # "return"
        THEN Outcome(score.outcome, NoResult,
                     <<"load_audio_bytes", "get_embedding", "cosine_similarity">>,
                     m, emb.value, emb1, emb2, main, emb.model)
        ELSE Outcome("return", SuccessResult(score.value, thr),
                     <<"load_audio_bytes", "get_embedding", "cosine_similarity">>,
                     m, emb.value, emb1, emb2, main, emb.model)

\* a compare_bytes that catches every lower-layer fault into the error dict
compare_bytes_catch_all(audio_bytes, main, mdl, thr) ==
    LET r == ScoreEmbedding(audio_bytes, main, mdl, thr)
    IN  IF MissingReference(main) THEN GuardReturn(main, mdl)
        ELSE IF r.outcome # "return"
        THEN Outcome("return", ErrorResult, r.calls, 0, <<>>, <<>>, <<>>, main, r.model)
        ELSE r

\* a compare_bytes that decodes the audio before it looks at the reference
compare_bytes_guard_after_load(audio_bytes, main, mdl, thr) ==
    LET sig == load_audio_bytes(audio_bytes, SR)
    IN  IF sig.outcome # "return"
        THEN Outcome(sig.outcome, NoResult, <<"load_audio_bytes">>,
                     0, <<>>, <<>>, <<>>, main, mdl)
        ELSE IF MissingReference(main)
        THEN Outcome("return", ErrorResult, <<"load_audio_bytes">>,
                     0, <<>>, <<>>, <<>>, main, mdl)
        ELSE ScoreEmbedding(audio_bytes, main, mdl, thr)

\* a compare_bytes that trims the caller's list in place to the compared length
compare_bytes_trims_list(audio_bytes, main, mdl, thr) ==
    LET r == IF MissingReference(main) THEN GuardReturn(main, mdl)
             ELSE ScoreEmbedding(audio_bytes, main, mdl, thr)
    IN  IF r.outcome = "return" /\ r.result.status = "success"
        THEN [r EXCEPT !.main_after = PyList(Slice(main.items, r.m - 1))]
        ELSE r

compare_bytes(audio_bytes, main, mdl, thr) ==
    IF MissingReference(main) THEN GuardReturn(main, mdl)
    ELSE ScoreEmbedding(audio_bytes, main, mdl, thr)

----------------------------------------------------------------------------
\* The calling layer

\* the floats a caller puts in a list; 1 is a double float32 rounds to 0.0
ListVals == {1, 2}

Lists == UNION {[1..n -> ListVals] : n \in 0..MaxLen}

\* every main_embedding_list argument a caller can supply
MainArgs == {PyNone} \cup {PyList(l) : l \in Lists}

NoAudio == [name |-> "-", valid |-> FALSE, sr |-> 0, channels |-> 0, frames |-> <<>>]

NoCall ==
    [op |-> "none", audio |-> NoAudio, sig |-> <<>>, main |-> PyNone,
     reused |-> FALSE, repeat |-> FALSE, source |-> "caller",
     model_before |-> "None", outcome |-> "return", result |-> NoResult,
     value |-> <<>>, calls |-> <<>>, m |-> 0, emb |-> <<>>, emb1 |-> <<>>,
     emb2 |-> <<>>]

Init ==
    /\ model = "None"
    /\ THRESHOLD = <<1, 2>>
    /\ init_called = FALSE
    /\ main_embedding_list = PyNone
    /\ main_source = "caller"
    /\ last = NoCall

\* init(): from_hparams either loads the model or raises and leaves the global alone
init ==
    \E loaded \in BOOLEAN :
        /\ model' = IF loaded THEN "loaded" ELSE model
        /\ init_called' = TRUE
        /\ last' = [NoCall EXCEPT !.op = "init", !.model_before = model,
                                  !.outcome = IF loaded THEN "return" ELSE "LoadError"]
        /\ UNCHANGED <<THRESHOLD, main_embedding_list, main_source>>

CallGetEmbedding ==
    \E sig \in Waveforms :
        LET r == get_embedding(sig, model)
        IN  /\ model' = r.model
            /\ last' = [NoCall EXCEPT !.op = "get_embedding", !.sig = sig,
                                      !.model_before = model,
                                      !.outcome = r.outcome, !.value = r.value,
                                      !.calls = <<"get_embedding">>]
            /\ UNCHANGED <<THRESHOLD, init_called, main_embedding_list, main_source>>

\* the caller keeps the list returned, to pass it to compare_bytes later
CallGetAudioEmbedding ==
    \E audio_bytes \in AudioInputs :
        LET r == get_audio_embedding(audio_bytes, model)
        IN  /\ model' = r.model
            /\ last' = [NoCall EXCEPT !.op = "get_audio_embedding",
                                      !.audio = audio_bytes,
                                      !.model_before = model,
                                      !.outcome = r.outcome, !.value = r.value,
                                      !.calls = r.calls]
            /\ IF r.outcome = "return"
               THEN /\ main_embedding_list' = PyList(r.value)
                    /\ main_source' = audio_bytes.name
               ELSE UNCHANGED <<main_embedding_list, main_source>>
            /\ UNCHANGED <<THRESHOLD, init_called>>

CompareRecord(audio_bytes, main, reused, repeat, source, r) ==
    [NoCall EXCEPT !.op = "compare_bytes", !.audio = audio_bytes, !.main = main,
                   !.reused = reused, !.repeat = repeat, !.source = source,
                   !.model_before = model,
                   !.outcome = r.outcome, !.result = r.result, !.calls = r.calls,
                   !.m = r.m, !.emb = r.emb, !.emb1 = r.emb1, !.emb2 = r.emb2]

\* compare_bytes with a list the caller builds for this call
CallCompareBytes ==
    \E audio_bytes \in AudioInputs, main \in MainArgs :
        LET r == compare_bytes(audio_bytes, main, model, THRESHOLD)
        IN  /\ model' = r.model
            /\ main_embedding_list' = r.main_after
            /\ main_source' = "caller"
            /\ last' = CompareRecord(audio_bytes, main, FALSE, FALSE, "caller", r)
            /\ UNCHANGED <<THRESHOLD, init_called>>

\* compare_bytes with the list object the caller already holds
CallCompareBytesAgain ==
    \E audio_bytes \in AudioInputs :
        LET r == compare_bytes(audio_bytes, main_embedding_list, model, THRESHOLD)
        IN  /\ model' = r.model
            /\ main_embedding_list' = r.main_after
            /\ last' = CompareRecord(audio_bytes, main_embedding_list, TRUE,
                                     last.op = "compare_bytes" /\ last.audio = audio_bytes,
                                     main_source, r)
            /\ UNCHANGED <<THRESHOLD, init_called, main_source>>

Next ==
    \/ init
    \/ CallGetEmbedding
    \/ CallGetAudioEmbedding
    \/ CallCompareBytes
    \/ CallCompareBytesAgain

Spec == Init /\ [][Next]_vars

----------------------------------------------------------------------------
\* Properties.  They read the recorded call, never the operators above.

\* the reference of the recorded call is None or an empty list
NoReference == last.main.is_none \/ last.main.items = <<>>

Compared == last.op = "compare_bytes"

Returned == last.outcome = "return"

Succeeded == Compared /\ Returned /\ last.result.status = "success"

\* C1: compare_bytes with a main embedding that is None or an empty list
\* returns, whatever the audio bytes, status "error", is_match false, score 0.0
\* and a descriptive message, and raises nothing.
C1_MissingReferenceReturnsError ==
    (Compared /\ NoReference) =>
        /\ Returned
        /\ last.result.status = "error"
        /\ last.result.is_match = FALSE
        /\ last.result.score = Zero
        /\ "message" \in DOMAIN last.result
        /\ last.result.message # ""

C1_Witness ==
    /\ Compared /\ ~last.main.is_none /\ last.main.items = <<>>
    /\ last.audio = MonoA /\ last.model_before = "loaded"
    /\ Returned /\ last.result.status = "error"

\* C2: in every successful result is_match is true exactly when the score is
\* strictly above 0.5 (a score of exactly 0.5 is no match), and no call changes
\* the threshold.
C2_StrictThreshold ==
    /\ THRESHOLD = <<1, 2>>
    /\ Succeeded => (last.result.is_match <=> ScoreGT(last.result.score, <<1, 2>>))

C2_Witness == Succeeded /\ last.result.score = Half /\ last.result.is_match = FALSE

\* C3: for non-empty embeddings of any two lengths compare_bytes scores exactly
\* the first min(len1, len2) elements of each, unpadded, and raises no
\* index or dimension fault.
C3_TruncatesToShorter ==
    Compared =>
        /\ last.outcome \notin {"RuntimeError", "IndexError"}
        /\ Len(last.calls) = 3 =>
              LET t == ToTensor(last.main.items)
                  n == IF Len(t) <= Len(last.emb) THEN Len(t) ELSE Len(last.emb)
              IN  /\ last.m = n
                  /\ last.emb1 = SubSeq(t, 1, n)
                  /\ last.emb2 = SubSeq(last.emb, 1, n)

C3_Witness ==
    /\ Succeeded
    /\ Len(last.main.items) > Len(last.emb)
    /\ Len(last.emb1) = Len(last.emb) /\ Len(last.emb2) = Len(last.emb)

\* the list compared is the one get_audio_embedding returned for the same bytes
RoundTrip == Compared /\ last.reused /\ last.source = last.audio.name

EmbeddingOperation ==
    \/ last.op \in {"get_embedding", "get_audio_embedding"}
    \/ Compared /\ ~NoReference

NothingReturned == last.value = <<>> /\ last.result = NoResult

\* C5, as claimed: an embedding operation invoked before any init fails with
\* the uninitialized-model error and returns nothing.
C5_UninitializedFailsWithModelError ==
    (EmbeddingOperation /\ ~init_called) =>
        last.outcome = "UninitializedModelError" /\ NothingReturned

\* C5, amended: it fails and returns nothing; the failure is the
\* uninitialized-model error when the bytes decode (and for get_embedding),
\* and the decode error, raised first, when they do not.
C5_UninitializedFails ==
    (EmbeddingOperation /\ ~init_called) =>
        /\ last.outcome =
               IF last.op # "get_embedding" /\ ~last.audio.valid
               THEN "DecodeError" ELSE "UninitializedModelError"
        /\ NothingReturned

C5_Witness ==
    /\ Compared /\ ~NoReference /\ last.audio.valid
    /\ ~init_called
    /\ last.outcome = "UninitializedModelError"

\* C6: compare_bytes returns status "error" if and only if the main embedding
\* is None or empty; a decode failure or an uninitialised model is not caught
\* and not retried, it reaches the caller as a fault.
C6_OnlyMissingReferenceIsStructured ==
    Compared =>
        /\ (Returned /\ last.result.status = "error") <=> NoReference
        /\ (~NoReference /\ ~last.audio.valid) =>
               /\ last.outcome = "DecodeError"
               /\ last.calls = <<"load_audio_bytes">>
               /\ last.result = NoResult
        /\ (~NoReference /\ last.audio.valid /\ last.model_before = "None") =>
               /\ last.outcome = "UninitializedModelError"
               /\ last.calls = <<"load_audio_bytes", "get_embedding">>
               /\ last.result = NoResult

C6_Witness ==
    Compared /\ ~NoReference /\ ~last.audio.valid /\ last.outcome = "DecodeError"

\* C7: with the reference fixed, comparing twice with the same audio bytes gives
\* the same outcome and score, and a comparison leaves the reference list, the
\* model and the threshold as they were.
C7_CompareIsIdempotent ==
    [][ /\ last'.op = "compare_bytes" =>
              /\ model' = model
              /\ THRESHOLD' = THRESHOLD
              /\ main_embedding_list' = last'.main
        /\ (last'.op = "compare_bytes" /\ last'.repeat) =>
              /\ last'.main = last.main
              /\ last'.outcome = last.outcome
              /\ last'.result = last.result ]_vars

C7_Witness ==
    /\ Succeeded /\ last.repeat
    /\ last.result.score = Half
    /\ main_embedding_list = last.main

\* C8: the missing-reference guard runs first: with a main embedding that is
\* None or empty the error result is returned before any decoding or model
\* call, also with no model loaded and with bytes that are no audio.
C8_GuardRunsFirst ==
    (Compared /\ NoReference) =>
        Returned /\ last.result.status = "error" /\ last.calls = <<>>

C8_Witness ==
    /\ Compared /\ NoReference
    /\ ~init_called /\ last.audio = NotAudio
    /\ Returned /\ last.result.status = "error"

\* C9: every result compare_bytes returns is consistent: status is "success"
\* or "error"; "error" carries score 0.0, is_match false and a message;
\* "success" carries no message; is_match true implies "success" and a score
\* above 0.5.
C9_ResultIsConsistent ==
    (Compared /\ Returned) =>
        /\ last.result.status \in {"success", "error"}
        /\ last.result.status = "error" =>
               /\ last.result.score = Zero
               /\ last.result.is_match = FALSE
               /\ "message" \in DOMAIN last.result
        /\ last.result.status = "success" => "message" \notin DOMAIN last.result
        /\ last.result.is_match =>
               /\ last.result.status = "success"
               /\ ScoreGT(last.result.score, <<1, 2>>)

C9_Witness ==
    /\ Compared /\ Returned /\ last.result.is_match
    /\ DOMAIN last.result = {"score", "is_match", "status"}

\* C10: only init writes the model slot: get_embedding, get_audio_embedding and
\* compare_bytes leave it as it was whether they return or raise, so a loaded
\* model stays loaded and no later embedding operation fails for want of it.
C10_OnlyInitWritesModel ==
    [][ /\ model' # model => last'.op = "init"
        /\ model # "None" =>
              /\ model' # "None"
              /\ last'.outcome # "UninitializedModelError" ]_vars

C10_Witness ==
    /\ model = "loaded" /\ last.model_before = "loaded"
    /\ last.op = "get_audio_embedding" /\ Returned

====
